---- MODULE Spec2Model ----
(***************************************************************************)
(* Model of the saltlick-cli keychain (src/src/keychain.rs): a directory   *)
(* of <name>.pub / <name>.sec files and the Keychain operations create,    *)
(* get, find, remove, rename and iter, each broken into the filesystem     *)
(* calls it makes (is_file, from_file, to_file, remove_file, read_dir).    *)
(* Strings are sequences of one-character strings.                         *)
(***************************************************************************)
EXTENDS Integers, Sequences, FiniteSets, TLC

VARIABLES
    dir,       \* the keychain directory: file name -> entry
    proc,      \* per caller: the operation in progress and its locals
    created,   \* history: name -> keys of a successful create still in force
    wfaults,   \* history: number of to_file / remove_file calls that failed
    rfaults,   \* history: number of from_file / read_dir calls that failed
    envSteps,  \* history: number of changes made from outside the Keychain
    writer,    \* history: name -> who last changed one of its files
    tree,      \* the directories around the keychain: path -> kind of entry
    outfile    \* the file at the output path of the encrypt and decrypt commands

vars == <<dir, proc, created, wfaults, rfaults, envSteps, writer, tree, outfile>>

(***************************************************************************)
(* Bounds                                                                  *)
(***************************************************************************)
MaxWriteFaults == 1
MaxReadFaults == 1
MaxEnv == 1
MaxLen == 3
MaxNones == 2

(***************************************************************************)
(* Input alphabet                                                          *)
(***************************************************************************)
Callers == {1, 2}

NameA == <<"a">>
NameB == <<"b">>
NameEmpty == <<>>
NameBad == <<"a", "/">>

RawNames == {NameA, NameB, NameEmpty, NameBad}

PublicKeys == {"P1", "P2"}
SecretKeys == {"S1", "S2"}

NoKey == "-"
NoName == <<"-", "-">>

(***************************************************************************)
(* KeypairName                                                             *)
(***************************************************************************)
Lower == {"a", "b", "c", "d", "e", "f", "g", "h", "i", "j", "k", "l", "m",
          "n", "o", "p", "q", "r", "s", "t", "u", "v", "w", "x", "y", "z"}
Upper == {"A", "B", "C", "D", "E", "F", "G", "H", "I", "J", "K", "L", "M",
          "N", "O", "P", "Q", "R", "S", "T", "U", "V", "W", "X", "Y", "Z"}
Digit == {"0", "1", "2", "3", "4", "5", "6", "7", "8", "9"}

\* variant: the dot is not allowed either
is_invalid_char_NoDot(c) == c \notin (Lower \cup Upper \cup Digit \cup {"-", "_"})

is_invalid_char(c) == c \notin (Lower \cup Upper \cup Digit \cup {"-", "_", "."})

\* variant: the largest index holding an invalid character
FirstInvalid_Last(s) ==
    IF \E i \in 1..Len(s) : is_invalid_char(s[i])
    THEN CHOOSE i \in 1..Len(s) :
            /\ is_invalid_char(s[i])
            /\ \A j \in (i + 1)..Len(s) : ~is_invalid_char(s[j])
    ELSE 0

\* chars().find(..): the smallest index holding an invalid character, 0 if none
FirstInvalid(s) ==
    IF \E i \in 1..Len(s) : is_invalid_char(s[i])
    THEN CHOOSE i \in 1..Len(s) :
            /\ is_invalid_char(s[i])
            /\ \A j \in 1..(i - 1) : ~is_invalid_char(s[j])
    ELSE 0

KeypairName_new(raw) ==
    IF Len(raw) = 0
    THEN [ok |-> FALSE, err |-> "Empty", ch |-> "", name |-> NoName]
    ELSE IF FirstInvalid(raw) # 0
    THEN [ok |-> FALSE, err |-> "BadChar", ch |-> raw[FirstInvalid(raw)], name |-> NoName]
    ELSE [ok |-> TRUE, err |-> "", ch |-> "", name |-> raw]

public_filename(n) == n \o <<".", "p", "u", "b">>
secret_filename(n) == n \o <<".", "s", "e", "c">>

ValidNames == {n \in RawNames : KeypairName_new(n).ok}

(***************************************************************************)
(* Directory entries and the key codec                                     *)
(***************************************************************************)
Files == {public_filename(n) : n \in ValidNames} \cup {secret_filename(n) : n \in ValidNames}

Absent == [kind |-> "absent", data |-> <<>>]
Directory == [kind |-> "dir", data |-> <<>>]
RegularFile(d) == [kind |-> "file", data |-> d]

\* a file whose bytes are not a key (empty, truncated, foreign)
Junk == <<"JUNK">>

PublicPem(p) == <<"PUBLIC KEY", p>>
SecretPem(s) == <<"SECRET KEY", s>>

is_file(d, f) == f \in DOMAIN d /\ d[f].kind = "file"

PublicKey_from_file(d, f) ==
    IF is_file(d, f) /\ Len(d[f].data) = 2 /\ d[f].data[1] = "PUBLIC KEY"
    THEN [ok |-> TRUE, key |-> d[f].data[2]]
    ELSE [ok |-> FALSE, key |-> NoKey]

SecretKey_from_file(d, f) ==
    IF is_file(d, f) /\ Len(d[f].data) = 2 /\ d[f].data[1] = "SECRET KEY"
    THEN [ok |-> TRUE, key |-> d[f].data[2]]
    ELSE [ok |-> FALSE, key |-> NoKey]

\* to_file can only succeed where the path is not a directory
\* variant: only a file that does not exist yet can be written
CanWrite_Exclusive(d, f) == d[f].kind = "absent"

CanWrite(d, f) == f \in DOMAIN d /\ d[f].kind # "dir"

\* what a failed to_file may leave behind: the entry as it was, or, where a
\* file could be opened, a file without a complete key in it
AfterFailedWrite(d, f) ==
    {d[f]} \cup (IF CanWrite(d, f) THEN {RegularFile(Junk)} ELSE {})

\* Keypair::load run on directory d without interruption or I/O failure
Load(d, raw) ==
    LET parsed == KeypairName_new(raw)
        public == PublicKey_from_file(d, public_filename(parsed.name))
        secret == SecretKey_from_file(d, secret_filename(parsed.name))
    IN  IF ~parsed.ok
        THEN [kind |-> "InvalidKeypairName", name |-> NoName, public |-> NoKey, secret |-> NoKey]
        ELSE IF ~(is_file(d, public_filename(parsed.name)) /\ is_file(d, secret_filename(parsed.name)))
        THEN [kind |-> "KeypairNotFound", name |-> NoName, public |-> NoKey, secret |-> NoKey]
        ELSE IF ~(public.ok /\ secret.ok)
        THEN [kind |-> "LoadError", name |-> NoName, public |-> NoKey, secret |-> NoKey]
        ELSE [kind |-> "Ok", name |-> parsed.name, public |-> public.key, secret |-> secret.key]

(***************************************************************************)
(* Path::extension / Path::file_stem as used by KeychainIter::new          *)
(***************************************************************************)
Dots(f) == {i \in 1..Len(f) : f[i] = "."}
LastDot(f) == CHOOSE i \in Dots(f) : \A j \in Dots(f) : j <= i

\* TRUE when the file name splits into a non-empty stem and an extension
SplitsAtDot(f) == Dots(f) # {} /\ f # <<".", ".">> /\ LastDot(f) > 1

ext_or_empty(f) == IF SplitsAtDot(f) THEN SubSeq(f, LastDot(f) + 1, Len(f)) ELSE <<>>
file_stem(f) == IF SplitsAtDot(f) THEN SubSeq(f, 1, LastDot(f) - 1) ELSE f

read_dir(d) == {f \in DOMAIN d : d[f].kind # "absent"}

\* the deduplicated set of candidate names KeychainIter::new collects
CandidateNames(d) ==
    {file_stem(f) : f \in {g \in read_dir(d) :
        ext_or_empty(g) = <<"p", "u", "b">> \/ ext_or_empty(g) = <<"s", "e", "c">>}}

(***************************************************************************)
(* Results and caller records                                              *)
(***************************************************************************)
NoPath == <<>>
NoKeypair == [name |-> NoName, public |-> NoKey, secret |-> NoKey]
NoKeys == [public |-> NoKey, secret |-> NoKey]

\* a Result: Ok(keypair), Ok(()) or Err(KeychainError); detail/ch carry the
\* InvalidKeypairName payload
Result(kind, kp) ==
    [kind |-> kind, keypair |-> kp, detail |-> "", ch |-> "", path |-> NoPath]
Ok(kp) == Result("Ok", kp)
OkUnit == Result("Ok", NoKeypair)
Err(kind) == Result(kind, NoKeypair)
NoResult == Result("none", NoKeypair)

\* Keypair::parse_keypair_name maps the validation error
InvalidName(parsed) ==
    [kind |-> "InvalidKeypairName", keypair |-> NoKeypair,
     detail |-> parsed.err, ch |-> parsed.ch, path |-> NoPath]

Call(call, arg) == [call |-> call, arg |-> arg]

\* the calls each Keychain method makes, in order
Keychain_create == << Call("create", "name") >>
Keychain_get == << Call("get", "name") >>
\* variant: remove deletes without looking the keypair up first
Keychain_remove_NoGet == << Call("delete", "name") >>

Keychain_remove == << Call("get", "name"), Call("delete", "name") >>
\* variant: rename never removes the old name
Keychain_rename_NoRemove ==
    << Call("get", "name"), Call("create", "new_name") >>

\* variant: rename creates nothing
Keychain_rename_NoCreate ==
    << Call("get", "name") >> \o Keychain_remove

\* variant: rename removes the old name before it creates the new one
Keychain_rename_RemoveFirst ==
    << Call("get", "name") >> \o Keychain_remove \o << Call("create", "new_name") >>

Keychain_rename ==
    << Call("get", "name"), Call("create", "new_name") >> \o Keychain_remove

(***************************************************************************)
(* The directories around the keychain.  KeyDir is the keychain directory  *)
(* whose entries dir holds; Elsewhere is a second path with a parent.      *)
(***************************************************************************)
KeyDir == <<"k">>
Elsewhere == <<"n", "k">>

Prefixes(path) == {SubSeq(path, 1, i) : i \in 1..Len(path)}

Nodes == Prefixes(KeyDir) \cup Prefixes(Elsewhere)

KeychainOnly == [q \in Nodes |-> IF q = KeyDir THEN "dir" ELSE "absent"]

\* the trees a filesystem can hold: nothing exists below a non-directory
Trees ==
    {t \in [Nodes -> {"absent", "dir", "file"}] :
        /\ t[KeyDir] = "dir"
        /\ \A q \in Nodes :
              (Len(q) > 1 /\ t[SubSeq(q, 1, Len(q) - 1)] # "dir") => t[q] = "absent"}

\* fs::create_dir_all: every missing component is created; a component that
\* exists and is not a directory is an error
create_dir_all(t, path) ==
    IF \E q \in Prefixes(path) : t[q] = "file"
    THEN [ok |-> FALSE, tree |-> t]
    ELSE [ok |-> TRUE,
          tree |-> [q \in Nodes |-> IF q \in Prefixes(path) THEN "dir" ELSE t[q]]]

\* what a create_dir_all that failed on the way may have created already
AfterFailedMkdir(t, path) ==
    {t} \cup {[q \in Nodes |-> IF q \in Prefixes(path) /\ Len(q) <= i THEN "dir" ELSE t[q]] :
                i \in 1..(Len(path) - 1)}

\* Option::None of a command line argument
None == <<"none">>

\* EncryptArgs / DecryptArgs without any option given
NoArgs ==
    [force |-> FALSE, infile |-> None, key |-> None, public |-> None,
     secret |-> None, outfile |-> None]

\* an error that carries the path it is about
ErrAt(kind, path) == [Err(kind) EXCEPT !.path = path]

IdleProc ==
    [pc |-> "idle", op |-> "none",
     name |-> NoName, new_name |-> NoName, public |-> NoKey, secret |-> NoKey,
     plan |-> <<>>, cur |-> NoName, keypair |-> NoKeypair,
     public_result |-> TRUE, name_iter |-> {}, yielded |-> <<>>,
     res |-> NoResult, fs0 |-> [f \in Files |-> Absent], touched |-> FALSE,
     read_failed |-> FALSE, files |-> <<>>, path |-> NoPath,
     tree0 |-> KeychainOnly, args |-> NoArgs, out0 |-> "absent",
     attempts |-> 0, nones |-> 0]

\* the operation returns: only its arguments, result and history are kept
Finish(p, res) ==
    [p EXCEPT !.pc = "done", !.res = res, !.plan = <<>>, !.cur = NoName,
              !.keypair = NoKeypair, !.public_result = TRUE, !.name_iter = {}]

InIter(p) == p.op \in {"find", "iter"}

\* variant: create always takes the keys of the keypair last loaded
CreateKeys_Stale(p) ==
    [public |-> p.keypair.public, secret |-> p.keypair.secret]

\* the keys Keychain::create is called with: the caller's, or in rename the
\* keys of the keypair just loaded under the old name
CreateKeys(p) ==
    IF p.op = "rename"
    THEN [public |-> p.keypair.public, secret |-> p.keypair.secret]
    ELSE [public |-> p.public, secret |-> p.secret]

FirstPc(call) ==
    CASE call = "get" -> "load_is_file_public"
      [] call = "create" -> "save_is_file_public"
      [] call = "delete" -> "delete_is_file_public"

\* start the first call of plan: get and create validate the raw name before
\* anything else, delete works on the keypair already loaded
Enter(p, plan) ==
    LET h == Head(plan)
        raw == IF h.arg = "new_name" THEN p.new_name ELSE p.name
        parsed == KeypairName_new(raw)
    IN  IF h.call = "delete"
        THEN [p EXCEPT !.pc = FirstPc("delete"), !.plan = Tail(plan),
                       !.cur = p.keypair.name]
        ELSE IF ~parsed.ok
        THEN Finish(p, InvalidName(parsed))
        ELSE [p EXCEPT !.pc = FirstPc(h.call), !.plan = Tail(plan),
                       !.cur = parsed.name]

\* a call of the plan succeeded: go on with the next one, or return
Continue(p) ==
    IF p.plan = <<>>
    THEN Finish(p, IF p.op = "get" THEN Ok(p.keypair) ELSE OkUnit)
    ELSE Enter(p, p.plan)

\* variant: a file that is gone at the read is reported as a missing keypair
FromFileError_NotFound(d, n) ==
    IF is_file(d, public_filename(n)) /\ is_file(d, secret_filename(n))
    THEN Err("LoadError")
    ELSE Err("KeypairNotFound")

\* map_err of from_file in Keypair::load: whatever the reason, a LoadError
FromFileError(d, n) == Err("LoadError")

\* variant: a failed load ends the iteration too
LoadFail_Abort(p, e) == Finish(p, e)

\* Keypair::load failed: `?` in the Keychain methods, skipped by the iterator
LoadFail(p, e) ==
    IF InIter(p)
    THEN [p EXCEPT !.pc = "iter_next", !.cur = NoName, !.keypair = NoKeypair]
    ELSE Finish(p, e)

\* variant: find takes the first keypair whose public key differs
LoadOk_Differs(p, kp) ==
    IF p.op = "find"
    THEN IF kp.public # p.public
         THEN Finish(p, Ok(kp))
         ELSE [p EXCEPT !.pc = "iter_next", !.cur = NoName, !.keypair = NoKeypair]
    ELSE IF p.op = "iter"
    THEN [p EXCEPT !.pc = "iter_next", !.cur = NoName, !.keypair = NoKeypair,
                   !.yielded = Append(p.yielded, kp)]
    ELSE Continue([p EXCEPT !.keypair = kp])

\* variant: find takes the first keypair that loads, without comparing keys
LoadOk_NoCompare(p, kp) ==
    IF p.op = "find"
    THEN Finish(p, Ok(kp))
    ELSE IF p.op = "iter"
    THEN [p EXCEPT !.pc = "iter_next", !.cur = NoName, !.keypair = NoKeypair,
                   !.yielded = Append(p.yielded, kp)]
    ELSE Continue([p EXCEPT !.keypair = kp])

\* Keypair::load succeeded
LoadOk(p, kp) ==
    IF p.op = "find"
    THEN IF kp.public = p.public
         THEN Finish(p, Ok(kp))
         ELSE [p EXCEPT !.pc = "iter_next", !.cur = NoName, !.keypair = NoKeypair]
    ELSE IF p.op = "iter"
    THEN [p EXCEPT !.pc = "iter_next", !.cur = NoName, !.keypair = NoKeypair,
                   !.yielded = Append(p.yielded, kp)]
    ELSE Continue([p EXCEPT !.keypair = kp])

\* history: a create that returned Ok records its keys
Track(p) ==
    IF p.pc = "done" /\ p.op = "create" /\ p.res.kind = "Ok"
    THEN [created EXCEPT ![p.name] = [public |-> p.public, secret |-> p.secret]]
    ELSE created

\* history: remove(n) and rename(n, _) end the life of the keypair created as n
Forget(n) ==
    IF n \in ValidNames THEN [created EXCEPT ![n] = NoKeys] ELSE created

Begin(c, op, name, new_name, public, secret, plan) ==
    LET p0 == [proc[c] EXCEPT !.op = op, !.name = name, !.new_name = new_name,
                               !.public = public, !.secret = secret, !.fs0 = dir]
    IN  proc' = [proc EXCEPT ![c] = Enter(p0, plan)]

Step(c, p) ==
    /\ proc' = [proc EXCEPT ![c] = p]
    /\ created' = Track(p)

Touch(p) == [p EXCEPT !.touched = TRUE]

\* history: who changed a file of a name last
Nobody == <<"nobody">>
Outside == <<"outside">>
Handle(c) == <<"handle", c>>

Writes(c, n) ==
    IF dir' # dir THEN [writer EXCEPT ![n] = Handle(c)] ELSE writer

\* history: a from_file or read_dir call of this operation failed on a sound file
ReadFailed(p) == [p EXCEPT !.read_failed = TRUE]

(***************************************************************************)
(* Initial state: a freshly created, empty keychain directory              *)
(***************************************************************************)
Init ==
    /\ dir = [f \in Files |-> Absent]
    /\ proc = [c \in Callers |-> IdleProc]
    /\ created = [n \in ValidNames |-> NoKeys]
    /\ wfaults = 0
    /\ rfaults = 0
    /\ envSteps = 0
    /\ writer = [n \in ValidNames |-> Nobody]
    /\ tree = KeychainOnly
    /\ outfile = "absent"

(***************************************************************************)
(* Calls                                                                   *)
(***************************************************************************)
Create(c, name, public, secret) ==
    /\ proc[c].pc = "idle"
    /\ Begin(c, "create", name, NoName, public, secret, Keychain_create)
    /\ UNCHANGED <<dir, created, wfaults, rfaults, envSteps, writer, tree, outfile>>

Get(c, name) ==
    /\ proc[c].pc = "idle"
    /\ Begin(c, "get", name, NoName, NoKey, NoKey, Keychain_get)
    /\ UNCHANGED <<dir, created, wfaults, rfaults, envSteps, writer, tree, outfile>>

Remove(c, name) ==
    /\ proc[c].pc = "idle"
    /\ Begin(c, "remove", name, NoName, NoKey, NoKey, Keychain_remove)
    /\ created' = Forget(name)
    /\ UNCHANGED <<dir, wfaults, rfaults, envSteps, writer, tree, outfile>>

Rename(c, old_name, new_name) ==
    /\ proc[c].pc = "idle"
    /\ Begin(c, "rename", old_name, new_name, NoKey, NoKey, Keychain_rename)
    /\ created' = Forget(old_name)
    /\ UNCHANGED <<dir, wfaults, rfaults, envSteps, writer, tree, outfile>>

Find(c, public) ==
    /\ proc[c].pc = "idle"
    /\ proc' = [proc EXCEPT ![c] =
                  [proc[c] EXCEPT !.op = "find", !.public = public,
                                   !.fs0 = dir, !.pc = "iter_read_dir"]]
    /\ UNCHANGED <<dir, created, wfaults, rfaults, envSteps, writer, tree, outfile>>

Iter(c) ==
    /\ proc[c].pc = "idle"
    /\ proc' = [proc EXCEPT ![c] =
                  [proc[c] EXCEPT !.op = "iter", !.fs0 = dir, !.pc = "iter_read_dir"]]
    /\ UNCHANGED <<dir, created, wfaults, rfaults, envSteps, writer, tree, outfile>>

\* variant: the handle keeps what the call left behind
Return_KeepsResult(c) ==
    /\ proc[c].pc = "done"
    /\ proc' = [proc EXCEPT ![c] = [proc[c] EXCEPT !.pc = "idle"]]
    /\ UNCHANGED <<dir, created, wfaults, rfaults, envSteps, writer, tree, outfile>>

Return(c) ==
    /\ proc[c].pc = "done"
    /\ proc' = [proc EXCEPT ![c] = IdleProc]
    /\ UNCHANGED <<dir, created, wfaults, rfaults, envSteps, writer, tree, outfile>>

(***************************************************************************)
(* Keypair::load, one filesystem call per step                             *)
(***************************************************************************)
LoadIsFilePublic(c) ==
    LET p == Touch(proc[c]) IN
    /\ proc[c].pc = "load_is_file_public"
    /\ IF is_file(dir, public_filename(p.cur))
       THEN Step(c, [p EXCEPT !.pc = "load_is_file_secret"])
       ELSE Step(c, LoadFail(p, Err("KeypairNotFound")))
    /\ UNCHANGED <<dir, wfaults, rfaults, envSteps, writer, tree, outfile>>

\* variant: a public file found without its secret file is removed
LoadIsFileSecret_Cleans(c) ==
    LET p == Touch(proc[c]) IN
    /\ proc[c].pc = "load_is_file_secret"
    /\ IF is_file(dir, secret_filename(p.cur))
       THEN /\ Step(c, [p EXCEPT !.pc = "load_from_file_public"])
            /\ dir' = dir
       ELSE /\ Step(c, LoadFail(p, Err("KeypairNotFound")))
            /\ dir' = [dir EXCEPT ![public_filename(p.cur)] = Absent]
    /\ UNCHANGED <<wfaults, rfaults, envSteps, writer, tree, outfile>>

LoadIsFileSecret(c) ==
    LET p == Touch(proc[c]) IN
    /\ proc[c].pc = "load_is_file_secret"
    /\ IF is_file(dir, secret_filename(p.cur))
       THEN Step(c, [p EXCEPT !.pc = "load_from_file_public"])
       ELSE Step(c, LoadFail(p, Err("KeypairNotFound")))
    /\ UNCHANGED <<dir, wfaults, rfaults, envSteps, writer, tree, outfile>>

LoadFromFilePublic(c) ==
    LET p == Touch(proc[c])
        r == PublicKey_from_file(dir, public_filename(p.cur))
    IN
    /\ proc[c].pc = "load_from_file_public"
    /\ \E fail \in BOOLEAN :
         IF fail
         THEN /\ r.ok
              /\ rfaults < MaxReadFaults
              /\ rfaults' = rfaults + 1
              /\ Step(c, LoadFail(ReadFailed(p), FromFileError(dir, p.cur)))
         ELSE /\ rfaults' = rfaults
              /\ IF r.ok
                 THEN Step(c, [p EXCEPT !.pc = "load_from_file_secret",
                                        !.keypair = [name |-> p.cur, public |-> r.key,
                                                     secret |-> NoKey]])
                 ELSE Step(c, LoadFail(p, FromFileError(dir, p.cur)))
    /\ UNCHANGED <<dir, wfaults, envSteps, writer, tree, outfile>>

LoadFromFileSecret(c) ==
    LET p == Touch(proc[c])
        r == SecretKey_from_file(dir, secret_filename(p.cur))
    IN
    /\ proc[c].pc = "load_from_file_secret"
    /\ \E fail \in BOOLEAN :
         IF fail
         THEN /\ r.ok
              /\ rfaults < MaxReadFaults
              /\ rfaults' = rfaults + 1
              /\ Step(c, LoadFail(ReadFailed(p), FromFileError(dir, p.cur)))
         ELSE /\ rfaults' = rfaults
              /\ IF r.ok
                 THEN Step(c, LoadOk(p, [p.keypair EXCEPT !.secret = r.key]))
                 ELSE Step(c, LoadFail(p, FromFileError(dir, p.cur)))
    /\ UNCHANGED <<dir, wfaults, envSteps, writer, tree, outfile>>

(***************************************************************************)
(* Keypair::save                                                           *)
(***************************************************************************)
\* variant: the conflict found on the public file is dropped and the caller
\* goes on as if save had returned Ok
SaveIsFilePublic_Swallowed(c) ==
    LET p == Touch(proc[c]) IN
    /\ proc[c].pc = "save_is_file_public"
    /\ IF is_file(dir, public_filename(p.cur))
       THEN Step(c, Continue(p))
       ELSE Step(c, [p EXCEPT !.pc = "save_is_file_secret"])
    /\ UNCHANGED <<dir, wfaults, rfaults, envSteps, writer, tree, outfile>>

SaveIsFilePublic(c) ==
    LET p == Touch(proc[c]) IN
    /\ proc[c].pc = "save_is_file_public"
    /\ IF is_file(dir, public_filename(p.cur))
       THEN Step(c, Finish(p, Err("KeypairAlreadyExists")))
       ELSE Step(c, [p EXCEPT !.pc = "save_is_file_secret"])
    /\ UNCHANGED <<dir, wfaults, rfaults, envSteps, writer, tree, outfile>>

\* variant: save does not look at the secret file
SaveIsFileSecret_Ignored(c) ==
    LET p == Touch(proc[c]) IN
    /\ proc[c].pc = "save_is_file_secret"
    /\ Step(c, [p EXCEPT !.pc = "save_to_file_public"])
    /\ UNCHANGED <<dir, wfaults, rfaults, envSteps, writer, tree, outfile>>

SaveIsFileSecret(c) ==
    LET p == Touch(proc[c]) IN
    /\ proc[c].pc = "save_is_file_secret"
    /\ IF is_file(dir, secret_filename(p.cur))
       THEN Step(c, Finish(p, Err("KeypairAlreadyExists")))
       ELSE Step(c, [p EXCEPT !.pc = "save_to_file_public"])
    /\ UNCHANGED <<dir, wfaults, rfaults, envSteps, writer, tree, outfile>>

\* variant: the secret file is written whatever became of the public one
PublicWriteFailed_GoesOn(p) == [p EXCEPT !.pc = "save_to_file_secret"]

\* to_file(public).and_then(..): a failed public write skips the secret one
PublicWriteFailed(p) == Finish(p, Err("SaveError"))

SaveToFilePublic(c) ==
    LET p == Touch(proc[c])
        f == public_filename(p.cur)
    IN
    /\ proc[c].pc = "save_to_file_public"
    /\ \E fail \in BOOLEAN :
         IF fail
         THEN /\ CanWrite(dir, f)
              /\ wfaults < MaxWriteFaults
              /\ wfaults' = wfaults + 1
              /\ \E e \in AfterFailedWrite(dir, f) : dir' = [dir EXCEPT ![f] = e]
              /\ Step(c, PublicWriteFailed(p))
         ELSE /\ wfaults' = wfaults
              /\ IF CanWrite(dir, f)
                 THEN /\ dir' = [dir EXCEPT ![f] = RegularFile(PublicPem(CreateKeys(p).public))]
                      /\ Step(c, [p EXCEPT !.pc = "save_to_file_secret"])
                 ELSE /\ dir' = dir
                      /\ Step(c, PublicWriteFailed(p))
    /\ writer' = Writes(c, proc[c].cur)
    /\ UNCHANGED <<rfaults, envSteps, tree, outfile>>

SaveToFileSecret(c) ==
    LET p == Touch(proc[c])
        f == secret_filename(p.cur)
    IN
    /\ proc[c].pc = "save_to_file_secret"
    /\ \E fail \in BOOLEAN :
         IF fail
         THEN /\ CanWrite(dir, f)
              /\ wfaults < MaxWriteFaults
              /\ wfaults' = wfaults + 1
              /\ \E e \in AfterFailedWrite(dir, f) : dir' = [dir EXCEPT ![f] = e]
              /\ Step(c, Finish(p, Err("SaveError")))
         ELSE /\ wfaults' = wfaults
              /\ IF CanWrite(dir, f)
                 THEN /\ dir' = [dir EXCEPT ![f] = RegularFile(SecretPem(CreateKeys(p).secret))]
                      /\ Step(c, Continue(p))
                 ELSE /\ dir' = dir
                      /\ Step(c, Finish(p, Err("SaveError")))
    /\ writer' = Writes(c, proc[c].cur)
    /\ UNCHANGED <<rfaults, envSteps, tree, outfile>>

(***************************************************************************)
(* Keypair::delete                                                         *)
(***************************************************************************)
\* variant: a public file that is not there counts as a failed removal
DeleteIsFilePublic_AbsentFails(c) ==
    LET p == Touch(proc[c]) IN
    /\ proc[c].pc = "delete_is_file_public"
    /\ IF is_file(dir, public_filename(p.cur))
       THEN Step(c, [p EXCEPT !.pc = "delete_remove_public"])
       ELSE Step(c, [p EXCEPT !.pc = "delete_is_file_secret", !.public_result = FALSE])
    /\ UNCHANGED <<dir, wfaults, rfaults, envSteps, writer, tree, outfile>>

DeleteIsFilePublic(c) ==
    LET p == Touch(proc[c]) IN
    /\ proc[c].pc = "delete_is_file_public"
    /\ IF is_file(dir, public_filename(p.cur))
       THEN Step(c, [p EXCEPT !.pc = "delete_remove_public"])
       ELSE Step(c, [p EXCEPT !.pc = "delete_is_file_secret", !.public_result = TRUE])
    /\ UNCHANGED <<dir, wfaults, rfaults, envSteps, writer, tree, outfile>>

DeleteRemovePublic(c) ==
    LET p == Touch(proc[c])
        f == public_filename(p.cur)
    IN
    /\ proc[c].pc = "delete_remove_public"
    /\ \E fail \in BOOLEAN :
         IF fail
         THEN /\ is_file(dir, f)
              /\ wfaults < MaxWriteFaults
              /\ wfaults' = wfaults + 1
              /\ dir' = dir
              /\ Step(c, [p EXCEPT !.pc = "delete_is_file_secret", !.public_result = FALSE])
         ELSE /\ wfaults' = wfaults
              /\ dir' = IF is_file(dir, f) THEN [dir EXCEPT ![f] = Absent] ELSE dir
              /\ Step(c, [p EXCEPT !.pc = "delete_is_file_secret",
                                   !.public_result = is_file(dir, f)])
    /\ writer' = Writes(c, proc[c].cur)
    /\ UNCHANGED <<rfaults, envSteps, tree, outfile>>

\* variant: public_result.or(secret_result)
DeleteResult_Or(p, secret_result) ==
    IF p.public_result \/ secret_result
    THEN Continue(p)
    ELSE Finish(p, Err("DeleteError"))

\* public_result.and(secret_result).map_err(DeleteError)
DeleteResult(p, secret_result) ==
    IF p.public_result /\ secret_result
    THEN Continue(p)
    ELSE Finish(p, Err("DeleteError"))

\* variant: the test on the secret file is inverted
DeleteIsFileSecret_Inverted(c) ==
    LET p == Touch(proc[c]) IN
    /\ proc[c].pc = "delete_is_file_secret"
    /\ IF ~is_file(dir, secret_filename(p.cur))
       THEN Step(c, [p EXCEPT !.pc = "delete_remove_secret"])
       ELSE Step(c, DeleteResult(p, TRUE))
    /\ UNCHANGED <<dir, wfaults, rfaults, envSteps, writer, tree, outfile>>

DeleteIsFileSecret(c) ==
    LET p == Touch(proc[c]) IN
    /\ proc[c].pc = "delete_is_file_secret"
    /\ IF is_file(dir, secret_filename(p.cur))
       THEN Step(c, [p EXCEPT !.pc = "delete_remove_secret"])
       ELSE Step(c, DeleteResult(p, TRUE))
    /\ UNCHANGED <<dir, wfaults, rfaults, envSteps, writer, tree, outfile>>

DeleteRemoveSecret(c) ==
    LET p == Touch(proc[c])
        f == secret_filename(p.cur)
    IN
    /\ proc[c].pc = "delete_remove_secret"
    /\ \E fail \in BOOLEAN :
         IF fail
         THEN /\ is_file(dir, f)
              /\ wfaults < MaxWriteFaults
              /\ wfaults' = wfaults + 1
              /\ dir' = dir
              /\ Step(c, DeleteResult(p, FALSE))
         ELSE /\ wfaults' = wfaults
              /\ dir' = IF is_file(dir, f) THEN [dir EXCEPT ![f] = Absent] ELSE dir
              /\ Step(c, DeleteResult(p, is_file(dir, f)))
    /\ writer' = Writes(c, proc[c].cur)
    /\ UNCHANGED <<rfaults, envSteps, tree, outfile>>

(***************************************************************************)
(* KeychainIter                                                            *)
(***************************************************************************)
IterNew(c) ==
    LET p == Touch(proc[c]) IN
    /\ proc[c].pc = "iter_read_dir"
    /\ \E fail \in BOOLEAN :
         IF fail
         THEN /\ rfaults < MaxReadFaults
              /\ rfaults' = rfaults + 1
              /\ Step(c, Finish(ReadFailed(p), ErrAt("BadKeychainDir", KeyDir)))
         ELSE /\ rfaults' = rfaults
              /\ Step(c, [p EXCEPT !.pc = "iter_next", !.name_iter = CandidateNames(dir),
                                     !.fs0 = dir])
    /\ UNCHANGED <<dir, wfaults, envSteps, writer, tree, outfile>>

\* variant: a name stays in name_iter after it was taken
IterNext_KeepsName(c) ==
    LET p == proc[c] IN
    /\ p.pc = "iter_next"
    /\ IF p.name_iter = {}
       THEN Step(c, Finish([p EXCEPT !.nones = 1],
                           IF p.op = "find" THEN Err("PublicKeyNotFound") ELSE OkUnit))
       ELSE \E name \in p.name_iter :
              LET parsed == KeypairName_new(name)
                  q == [p EXCEPT !.attempts = p.attempts + 1]
              IN  IF parsed.ok
                  THEN Step(c, [q EXCEPT !.pc = "load_is_file_public", !.cur = parsed.name])
                  ELSE Step(c, LoadFail(q, InvalidName(parsed)))
    /\ UNCHANGED <<dir, wfaults, rfaults, envSteps, writer, tree, outfile>>

\* variant: every turn of the loop lists the directory again
IterNext_Rescan(c) ==
    LET p == proc[c]
        pool == p.name_iter \cup
                (CandidateNames(dir) \ {p.yielded[i].name : i \in 1..Len(p.yielded)})
    IN
    /\ p.pc = "iter_next"
    /\ IF pool = {}
       THEN Step(c, Finish([p EXCEPT !.nones = 1],
                           IF p.op = "find" THEN Err("PublicKeyNotFound") ELSE OkUnit))
       ELSE \E name \in pool :
              LET parsed == KeypairName_new(name)
                  q == [p EXCEPT !.name_iter = pool \ {name},
                                 !.attempts = p.attempts + 1]
              IN  IF parsed.ok
                  THEN Step(c, [q EXCEPT !.pc = "load_is_file_public", !.cur = parsed.name])
                  ELSE Step(c, LoadFail(q, InvalidName(parsed)))
    /\ UNCHANGED <<dir, wfaults, rfaults, envSteps, writer, tree, outfile>>

\* one turn of the loop in next(): take a name off name_iter and start loading
\* it, or end when none is left
IterNext(c) ==
    LET p == proc[c] IN
    /\ p.pc = "iter_next"
    /\ IF p.name_iter = {}
       THEN Step(c, Finish([p EXCEPT !.nones = 1],
                           IF p.op = "find" THEN Err("PublicKeyNotFound") ELSE OkUnit))
       ELSE \E name \in p.name_iter :
              LET parsed == KeypairName_new(name)
                  q == [p EXCEPT !.name_iter = p.name_iter \ {name},
                                 !.attempts = p.attempts + 1]
              IN  IF parsed.ok
                  THEN Step(c, [q EXCEPT !.pc = "load_is_file_public", !.cur = parsed.name])
                  ELSE Step(c, LoadFail(q, InvalidName(parsed)))
    /\ UNCHANGED <<dir, wfaults, rfaults, envSteps, writer, tree, outfile>>

(***************************************************************************)
(* Changes made to the directory from outside the Keychain                 *)
(***************************************************************************)
IsPublicFile(f) == ext_or_empty(f) = <<"p", "u", "b">>

EnvData(f) ==
    {Junk} \cup (IF IsPublicFile(f)
                 THEN {PublicPem(k) : k \in PublicKeys}
                 ELSE {SecretPem(k) : k \in SecretKeys})

Disturb(f) ==
    /\ envSteps < MaxEnv
    /\ envSteps' = envSteps + 1
    /\ created' = Forget(file_stem(f))
    /\ writer' = [writer EXCEPT ![file_stem(f)] = Outside]
    /\ UNCHANGED <<proc, wfaults, rfaults, tree, outfile>>

EnvWrite(f, data) ==
    /\ dir[f].kind # "dir"
    /\ dir[f] # RegularFile(data)
    /\ dir' = [dir EXCEPT ![f] = RegularFile(data)]
    /\ Disturb(f)

EnvRemove(f) ==
    /\ dir[f].kind # "absent"
    /\ dir' = [dir EXCEPT ![f] = Absent]
    /\ Disturb(f)

EnvMkdir(f) ==
    /\ dir[f].kind = "absent"
    /\ dir' = [dir EXCEPT ![f] = Directory]
    /\ Disturb(f)

(***************************************************************************)
(* Specification: one caller, calls made one at a time; the directory may  *)
(* be changed from outside only between calls                              *)
(***************************************************************************)
Solo == {1}

Quiet == \A c \in Callers : proc[c].pc = "idle"

Invoke(c) ==
    \/ \E n \in RawNames, k \in PublicKeys, s \in SecretKeys : Create(c, n, k, s)
    \/ \E n \in RawNames : Get(c, n)
    \/ \E n \in RawNames : Remove(c, n)
    \/ \E n \in RawNames, m \in RawNames : Rename(c, n, m)
    \/ \E k \in PublicKeys : Find(c, k)
    \/ Iter(c)

Work(c) ==
    \/ LoadIsFilePublic(c)
    \/ LoadIsFileSecret(c)
    \/ LoadFromFilePublic(c)
    \/ LoadFromFileSecret(c)
    \/ SaveIsFilePublic(c)
    \/ SaveIsFileSecret(c)
    \/ SaveToFilePublic(c)
    \/ SaveToFileSecret(c)
    \/ DeleteIsFilePublic(c)
    \/ DeleteRemovePublic(c)
    \/ DeleteIsFileSecret(c)
    \/ DeleteRemoveSecret(c)
    \/ IterNew(c)
    \/ IterNext(c)
    \/ Return(c)

Next ==
    \/ \E c \in Solo : Invoke(c)
    \/ \E c \in Solo : Work(c)
    \/ \E f \in Files : \E d \in EnvData(f) : Quiet /\ EnvWrite(f, d)
    \/ \E f \in Files : Quiet /\ EnvRemove(f)
    \/ \E f \in Files : Quiet /\ EnvMkdir(f)

Spec == Init /\ [][Next]_vars

(***************************************************************************)
(* A keychain directory that holds complete keypairs under some names      *)
(***************************************************************************)
KeyPairs == [public : PublicKeys, secret : SecretKeys]

DirOf(k) ==
    [f \in Files |->
        IF k[file_stem(f)] = NoKeys THEN Absent
        ELSE IF IsPublicFile(f)
        THEN RegularFile(PublicPem(k[file_stem(f)].public))
        ELSE RegularFile(SecretPem(k[file_stem(f)].secret))]

(***************************************************************************)
(* Two handles on the same directory, used one call after the other        *)
(***************************************************************************)
\* no filesystem call fails by itself here: the directory changes only by
\* what the handles and the outside write and remove
InitHandles ==
    /\ dir = [f \in Files |-> Absent]
    /\ proc = [c \in Callers |-> IdleProc]
    /\ created = [n \in ValidNames |-> NoKeys]
    /\ wfaults = MaxWriteFaults
    /\ rfaults = MaxReadFaults
    /\ envSteps = 0
    /\ writer = [n \in ValidNames |-> Nobody]
    /\ tree = KeychainOnly
    /\ outfile = "absent"

NextHandles ==
    \/ \E c \in Callers : Quiet /\ Invoke(c)
    \/ \E c \in Callers : Work(c)
    \/ \E f \in Files : \E d \in EnvData(f) : Quiet /\ EnvWrite(f, d)
    \/ \E f \in Files : Quiet /\ EnvRemove(f)
    \/ \E f \in Files : Quiet /\ EnvMkdir(f)

SpecHandles == InitHandles /\ [][NextHandles]_vars

(***************************************************************************)
(* Two callers run create, get and remove on the same name, interleaved at *)
(* every filesystem call                                                   *)
(***************************************************************************)
\* the keys a caller creates with tell the callers' writes apart
OwnPublic(c) == IF c \in Solo THEN "P1" ELSE "P2"
OwnSecret(c) == IF c \in Solo THEN "S1" ELSE "S2"

InvokeRace(c) ==
    \/ Create(c, NameA, OwnPublic(c), OwnSecret(c))
    \/ Get(c, NameA)
    \/ Remove(c, NameA)

WorkCalls(c) ==
    \/ LoadIsFilePublic(c)
    \/ LoadIsFileSecret(c)
    \/ LoadFromFilePublic(c)
    \/ LoadFromFileSecret(c)
    \/ SaveIsFilePublic(c)
    \/ SaveIsFileSecret(c)
    \/ SaveToFilePublic(c)
    \/ SaveToFileSecret(c)
    \/ DeleteIsFilePublic(c)
    \/ DeleteRemovePublic(c)
    \/ DeleteIsFileSecret(c)
    \/ DeleteRemoveSecret(c)
    \/ Return(c)

NextRace ==
    \/ \E c \in Callers : InvokeRace(c)
    \/ \E c \in Callers : WorkCalls(c)

SpecRace == Init /\ [][NextRace]_vars

(***************************************************************************)
(* One caller lists the keychain while the other creates, removes and      *)
(* renames, interleaved at every filesystem call; no call fails by itself  *)
(***************************************************************************)
\* the listing starts on a keychain of complete keypairs which the listing
\* caller created before
InitIter ==
    /\ \E k \in [ValidNames -> {NoKeys} \cup {kp \in KeyPairs : \E c \in Solo :
                        kp.public = OwnPublic(c) /\ kp.secret = OwnSecret(c)}] :
         dir = DirOf(k)
    /\ proc = [c \in Callers |-> IdleProc]
    /\ created = [n \in ValidNames |-> NoKeys]
    /\ wfaults = MaxWriteFaults
    /\ rfaults = MaxReadFaults
    /\ envSteps = 0
    /\ writer = [n \in ValidNames |-> Nobody]
    /\ tree = KeychainOnly
    /\ outfile = "absent"

InvokeIter(c) ==
    \/ c \in Solo /\ Iter(c)
    \/ \E name \in ValidNames : c \notin Solo /\ Create(c, name, OwnPublic(c), OwnSecret(c))
    \/ \E name \in ValidNames : c \notin Solo /\ Remove(c, name)
    \/ \E name, new_name \in ValidNames : c \notin Solo /\ Rename(c, name, new_name)

NextIter ==
    \/ \E c \in Callers : InvokeIter(c)
    \/ \E c \in Callers : Work(c)

SpecIter == InitIter /\ [][NextIter]_vars

(***************************************************************************)
(* A listing run to its end, and asked again after its end, while the      *)
(* other caller creates and removes; the listing caller keeps running      *)
(***************************************************************************)
InvokeIterEnd(c) ==
    \/ c \in Solo /\ Iter(c)
    \/ \E name \in ValidNames : c \notin Solo /\ Create(c, name, OwnPublic(c), OwnSecret(c))
    \/ \E name \in ValidNames : c \notin Solo /\ Remove(c, name)

\* next() called on the iterator that has returned None: name_iter is
\* exhausted, so the loop returns None at once
IterNextAgain(c) ==
    LET p == proc[c] IN
    /\ p.pc = "done"
    /\ p.op = "iter"
    /\ p.nones >= 1
    /\ p.nones < MaxNones
    /\ p.name_iter = {}
    /\ Step(c, [p EXCEPT !.nones = p.nones + 1])
    /\ UNCHANGED <<dir, wfaults, rfaults, envSteps, writer, tree, outfile>>

NextIterEnd ==
    \/ \E c \in Callers : InvokeIterEnd(c)
    \/ \E c \in Callers : Work(c)
    \/ \E c \in Solo : IterNextAgain(c)

SpecIterEnd ==
    InitIter /\ [][NextIterEnd]_vars /\ WF_vars(\E c \in Solo : Work(c))

(***************************************************************************)
(* KeypairName::new on its own: every string over Alphabet of at most      *)
(* MaxLen characters is validated, and a valid name derives its filenames  *)
(***************************************************************************)
Alphabet == {"a", "Z", "0", "-", "_", ".", "/", " "}

Strings == UNION {[1..n -> Alphabet] : n \in 0..MaxLen}

InitName ==
    /\ dir = [f \in Files |-> Absent]
    /\ \E raw \in Strings :
         proc = [c \in Callers |->
                   IF c \in Solo
                   THEN [IdleProc EXCEPT !.pc = "name_new", !.op = "name", !.name = raw]
                   ELSE IdleProc]
    /\ created = [n \in ValidNames |-> NoKeys]
    /\ wfaults = 0
    /\ rfaults = 0
    /\ envSteps = 0
    /\ writer = [n \in ValidNames |-> Nobody]
    /\ tree = KeychainOnly
    /\ outfile = "absent"

NameNew(c) ==
    LET p == proc[c]
        parsed == KeypairName_new(p.name)
    IN
    /\ p.pc = "name_new"
    /\ IF parsed.ok
       THEN Step(c, [p EXCEPT !.pc = "name_filenames", !.cur = parsed.name])
       ELSE Step(c, Finish(p, InvalidName(parsed)))
    /\ UNCHANGED <<dir, wfaults, rfaults, envSteps, writer, tree, outfile>>

NameFilenames(c) ==
    LET p == proc[c] IN
    /\ p.pc = "name_filenames"
    /\ Step(c, Finish([p EXCEPT !.files = <<public_filename(p.cur), secret_filename(p.cur)>>],
                      Ok([name |-> p.cur, public |-> NoKey, secret |-> NoKey])))
    /\ UNCHANGED <<dir, wfaults, rfaults, envSteps, writer, tree, outfile>>

NextName ==
    \/ \E c \in Solo : NameNew(c)
    \/ \E c \in Solo : NameFilenames(c)

SpecName == InitName /\ [][NextName]_vars

(***************************************************************************)
(* Keychain::open_at on a path of the tree, for every tree and every set   *)
(* of keypairs stored in the keychain directory                            *)
(***************************************************************************)
InitOpen ==
    /\ \E k \in [ValidNames -> {NoKeys} \cup KeyPairs] : dir = DirOf(k)
    /\ tree \in Trees
    /\ outfile = "absent"
    /\ proc = [c \in Callers |-> IdleProc]
    /\ created = [n \in ValidNames |-> NoKeys]
    /\ wfaults = 0
    /\ rfaults = 0
    /\ envSteps = 0
    /\ writer = [n \in ValidNames |-> Nobody]

\* variant: the kind the iterator constructor uses
OpenError_BadKeychainDir(path) == ErrAt("BadKeychainDir", path)

\* map_err of open_at
OpenError(path) == ErrAt("KeychainOpenError", path)

OpenAt(c, path) ==
    /\ proc[c].pc = "idle"
    /\ proc' = [proc EXCEPT ![c] =
                  [proc[c] EXCEPT !.op = "open_at", !.path = path, !.fs0 = dir,
                                  !.tree0 = tree, !.pc = "open_create_dir_all"]]
    /\ UNCHANGED <<dir, created, wfaults, rfaults, envSteps, writer, tree, outfile>>

OpenCreateDirAll(c) ==
    LET p == Touch(proc[c])
        r == create_dir_all(tree, p.path)
    IN
    /\ proc[c].pc = "open_create_dir_all"
    /\ \E fail \in BOOLEAN :
         IF fail
         THEN /\ r.ok
              /\ tree[p.path] # "dir"
              /\ wfaults < MaxWriteFaults
              /\ wfaults' = wfaults + 1
              /\ tree' \in AfterFailedMkdir(tree, p.path)
              /\ Step(c, Finish(p, OpenError(p.path)))
         ELSE /\ wfaults' = wfaults
              /\ tree' = r.tree
              /\ IF r.ok
                 THEN Step(c, Finish(p, OkUnit))
                 ELSE Step(c, Finish(p, OpenError(p.path)))
    /\ UNCHANGED <<dir, rfaults, envSteps, writer, outfile>>

NextOpen ==
    \/ \E c \in Solo : \E path \in Nodes : OpenAt(c, path)
    \/ \E c \in Solo : OpenCreateDirAll(c)
    \/ \E c \in Solo : Return(c)

SpecOpen == InitOpen /\ [][NextOpen]_vars

(***************************************************************************)
(* The encrypt and decrypt commands: key files, input file, output file    *)
(***************************************************************************)
PublicPath == <<"public.pem">>
SecretPath == <<"secret.pem">>
BrokenPath == <<"broken.pem">>
KeyPaths == {PublicPath, SecretPath, BrokenPath}

\* the key files outside the keychain
KeyFiles ==
    [f \in KeyPaths |->
        IF f = PublicPath THEN RegularFile(PublicPem("P1"))
        ELSE IF f = SecretPath THEN RegularFile(SecretPem("S1"))
        ELSE RegularFile(Junk)]

InPath == <<"in">>
LostPath == <<"lost">>
OutPath == <<"out">>

CliErr(kind, type_) == [Err(kind) EXCEPT !.detail = type_]

\* From<KeychainError> for CliError
FromKeychainError(kind) == [Err("KeychainError") EXCEPT !.detail = kind]

\* Keychain::open()?.get(name)?
OpenGet(d, t, name) ==
    IF ~create_dir_all(t, KeyDir).ok
    THEN [kind |-> "KeychainOpenError", name |-> NoName, public |-> NoKey, secret |-> NoKey]
    ELSE Load(d, name)

get_public_key(d, t, path, name) ==
    IF path # None /\ name # None
    THEN [ok |-> FALSE, key |-> NoKey, err |-> CliErr("BothKeyAndPath", "public")]
    ELSE IF path # None
    THEN IF PublicKey_from_file(KeyFiles, path).ok
         THEN [ok |-> TRUE, key |-> PublicKey_from_file(KeyFiles, path).key, err |-> NoResult]
         ELSE [ok |-> FALSE, key |-> NoKey,
               err |-> [CliErr("KeyLoadError", "public") EXCEPT !.path = path]]
    ELSE IF name # None
    THEN IF OpenGet(d, t, name).kind = "Ok"
         THEN [ok |-> TRUE, key |-> OpenGet(d, t, name).public, err |-> NoResult]
         ELSE [ok |-> FALSE, key |-> NoKey,
               err |-> FromKeychainError(OpenGet(d, t, name).kind)]
    ELSE [ok |-> FALSE, key |-> NoKey, err |-> CliErr("MissingKeyAndPath", "public")]

get_secret_key(d, t, path, name) ==
    IF path # None /\ name # None
    THEN [ok |-> FALSE, key |-> NoKey, err |-> CliErr("BothKeyAndPath", "secret")]
    ELSE IF path # None
    THEN IF SecretKey_from_file(KeyFiles, path).ok
         THEN [ok |-> TRUE, key |-> SecretKey_from_file(KeyFiles, path).key, err |-> NoResult]
         ELSE [ok |-> FALSE, key |-> NoKey,
               err |-> [CliErr("KeyLoadError", "secret") EXCEPT !.path = path]]
    ELSE IF name # None
    THEN IF OpenGet(d, t, name).kind = "Ok"
         THEN [ok |-> TRUE, key |-> OpenGet(d, t, name).secret, err |-> NoResult]
         ELSE [ok |-> FALSE, key |-> NoKey,
               err |-> FromKeychainError(OpenGet(d, t, name).kind)]
    ELSE [ok |-> FALSE, key |-> NoKey, err |-> CliErr("MissingKeyAndPath", "secret")]

\* the command lines tried: every combination of the key options, with and
\* without input file, output file and --force
DecryptArgs ==
    [force : BOOLEAN, infile : {None, InPath, LostPath}, key : {None, NameA, NameB},
     public : {None, PublicPath, BrokenPath}, secret : {None, SecretPath, BrokenPath},
     outfile : {None, OutPath}]

EncryptArgs == {a \in DecryptArgs : a.secret = None}

\* the command starts on a keychain that holds keypairs under some names and
\* with or without a file at the output path
InitCli ==
    /\ \E k \in [ValidNames -> {NoKeys, [public |-> "P1", secret |-> "S1"]}] : dir = DirOf(k)
    /\ proc = [c \in Callers |-> IdleProc]
    /\ created = [n \in ValidNames |-> NoKeys]
    /\ wfaults = 0
    /\ rfaults = 0
    /\ envSteps = 0
    /\ writer = [n \in ValidNames |-> Nobody]
    /\ tree = KeychainOnly
    /\ outfile \in {"absent", "old"}

Decrypt(c, args) ==
    /\ proc[c].pc = "idle"
    /\ proc' = [proc EXCEPT ![c] =
                  [proc[c] EXCEPT !.op = "decrypt", !.args = args, !.fs0 = dir,
                                  !.out0 = outfile, !.pc = "decrypt_read_or_stdin"]]
    /\ UNCHANGED <<dir, created, wfaults, rfaults, envSteps, writer, tree, outfile>>

Encrypt(c, args) ==
    /\ proc[c].pc = "idle"
    /\ proc' = [proc EXCEPT ![c] =
                  [proc[c] EXCEPT !.op = "encrypt", !.args = args, !.fs0 = dir,
                                  !.out0 = outfile, !.pc = "encrypt_get_public_key"]]
    /\ UNCHANGED <<dir, created, wfaults, rfaults, envSteps, writer, tree, outfile>>

EncryptGetPublicKey(c) ==
    LET p == proc[c]
        public == get_public_key(dir, tree, p.args.public, p.args.key)
    IN
    /\ p.pc = "encrypt_get_public_key"
    /\ IF public.ok
       THEN Step(c, [p EXCEPT !.pc = "encrypt_read_or_stdin", !.public = public.key])
       ELSE Step(c, Finish(p, public.err))
    /\ UNCHANGED <<dir, wfaults, rfaults, envSteps, writer, tree, outfile>>

ReadOrStdin(c) ==
    LET p == proc[c] IN
    /\ p.pc \in {"decrypt_read_or_stdin", "encrypt_read_or_stdin"}
    /\ IF p.args.infile \in {None, InPath}
       THEN Step(c, [p EXCEPT !.pc = IF p.op = "decrypt" THEN "decrypt_write_or_stdout"
                                                         ELSE "encrypt_write_or_stdout"])
       ELSE Step(c, Finish(p, ErrAt("InputFileIoError", p.args.infile)))
    /\ UNCHANGED <<dir, wfaults, rfaults, envSteps, writer, tree, outfile>>

\* File::create with --force, create_new without
WriteOrStdout(c) ==
    LET p == proc[c]
        next == [p EXCEPT !.pc = IF p.op = "decrypt" THEN "decrypt_keys" ELSE "copy"]
    IN
    /\ p.pc \in {"decrypt_write_or_stdout", "encrypt_write_or_stdout"}
    /\ IF p.args.outfile = None
       THEN outfile' = outfile /\ Step(c, next)
       ELSE IF p.args.force \/ outfile = "absent"
       THEN outfile' = "empty" /\ Step(c, next)
       ELSE outfile' = outfile /\ Step(c, Finish(p, ErrAt("OutputFileIoError", p.args.outfile)))
    /\ UNCHANGED <<dir, wfaults, rfaults, envSteps, writer, tree>>

\* the decrypter is built: with a deferred keychain lookup when neither
\* --public nor --key is given, else from the two keys resolved now
DecryptKeys(c) ==
    LET p == proc[c]
        public == get_public_key(dir, tree, p.args.public, p.args.key)
        secret == get_secret_key(dir, tree, p.args.secret, p.args.key)
    IN
    /\ p.pc = "decrypt_keys"
    /\ IF p.args.public = None /\ p.args.key = None
       THEN IF create_dir_all(tree, KeyDir).ok
            THEN Step(c, [p EXCEPT !.pc = "copy"])
            ELSE Step(c, Finish(p, FromKeychainError("KeychainOpenError")))
       ELSE IF ~public.ok
       THEN Step(c, Finish(p, public.err))
       ELSE IF ~secret.ok
       THEN Step(c, Finish(p, secret.err))
       ELSE Step(c, [p EXCEPT !.pc = "copy", !.public = public.key, !.secret = secret.key])
    /\ UNCHANGED <<dir, wfaults, rfaults, envSteps, writer, tree, outfile>>

\* io::copy: the stream is written to the output, or fails on the way
Copy(c) ==
    LET p == proc[c] IN
    /\ p.pc = "copy"
    /\ \E ok \in BOOLEAN :
         /\ Step(c, Finish(p, IF ok THEN OkUnit ELSE Err("StreamIoError")))
         /\ outfile' \in IF p.args.outfile = None THEN {outfile}
                          ELSE IF ok THEN {"written"} ELSE {outfile, "written"}
    /\ UNCHANGED <<dir, wfaults, rfaults, envSteps, writer, tree>>

NextCli ==
    \/ \E c \in Solo : \E args \in DecryptArgs : Decrypt(c, args)
    \/ \E c \in Solo : \E args \in EncryptArgs : Encrypt(c, args)
    \/ \E c \in Solo : EncryptGetPublicKey(c)
    \/ \E c \in Solo : ReadOrStdin(c)
    \/ \E c \in Solo : WriteOrStdout(c)
    \/ \E c \in Solo : DecryptKeys(c)
    \/ \E c \in Solo : Copy(c)
    \/ \E c \in Solo : Return(c)

SpecCli == InitCli /\ [][NextCli]_vars

(***************************************************************************)
(* Properties                                                              *)
(***************************************************************************)
Returned(c, op) == proc[c].pc = "done" /\ proc[c].op = op

HasEntry(d, f) == d[f].kind # "absent"

NameFiles(n) == {public_filename(n), secret_filename(n)}

Stored(d, n) == Load(d, n).kind = "Ok"

KeysOf(d, n) == [public |-> Load(d, n).public, secret |-> Load(d, n).secret]

\* C1: after create(n, p, s) returned Ok, and while n is neither removed nor
\* renamed, a get(n) that meets no read failure returns the keypair (n, p, s),
\* whatever was created before or after it.
C1_GetReturnsCreated ==
    \A c \in Callers :
        LET p == proc[c] IN
        (/\ Returned(c, "get")
         /\ p.name \in ValidNames
         /\ created[p.name] # NoKeys
         /\ ~p.read_failed)
        => p.res = Ok([name |-> p.name, public |-> created[p.name].public,
                       secret |-> created[p.name].secret])

C1_Witness ==
    \E c \in Callers :
        /\ Returned(c, "get")
        /\ proc[c].name = NameA
        /\ created[NameA] = [public |-> "P1", secret |-> "S2"]
        /\ created[NameB] = [public |-> "P2", secret |-> "S1"]
        /\ proc[c].res.kind = "Ok"

\* C2: create(n, ..) called while n.pub or n.sec is a regular file returns
\* KeypairAlreadyExists and leaves both files exactly as they were.
C2_CreateNeverOverwrites ==
    \A c \in Callers :
        LET p == proc[c] IN
        (/\ Returned(c, "create")
         /\ p.name \in ValidNames
         /\ \E f \in NameFiles(p.name) : is_file(p.fs0, f))
        => /\ p.res = Err("KeypairAlreadyExists")
           /\ \A f \in NameFiles(p.name) : dir[f] = p.fs0[f]

C2_Witness ==
    \E c \in Callers :
        LET p == proc[c] IN
        /\ Returned(c, "create")
        /\ p.name \in ValidNames
        /\ ~is_file(p.fs0, public_filename(p.name))
        /\ is_file(p.fs0, secret_filename(p.name))
        /\ p.res.kind = "KeypairAlreadyExists"

\* C3: rename(a, b) of a stored pair a to a free name b, once it returned Ok:
\* b loads with a's keys, a is not found, a's two files are gone and b's two
\* files exist.
C3_RenameMovesKeys ==
    \A c \in Callers :
        LET p == proc[c] IN
        (/\ Returned(c, "rename")
         /\ p.name \in ValidNames /\ p.new_name \in ValidNames
         /\ p.name # p.new_name
         /\ Stored(p.fs0, p.name)
         /\ \A f \in NameFiles(p.new_name) : ~HasEntry(p.fs0, f)
         /\ p.res.kind = "Ok")
        => /\ Stored(dir, p.new_name)
           /\ KeysOf(dir, p.new_name) = KeysOf(p.fs0, p.name)
           /\ Load(dir, p.new_name).name = p.new_name
           /\ Load(dir, p.name).kind = "KeypairNotFound"
           /\ \A f \in NameFiles(p.name) : ~HasEntry(dir, f)
           /\ \A f \in NameFiles(p.new_name) : is_file(dir, f)

C3_Witness ==
    \E c \in Callers :
        LET p == proc[c] IN
        /\ Returned(c, "rename")
        /\ p.res.kind = "Ok"
        /\ Stored(p.fs0, p.name)
        /\ Stored(dir, p.new_name)
        /\ KeysOf(dir, p.new_name) = [public |-> "P2", secret |-> "S1"]

\* C4: rename(a, b) of a stored pair a onto a stored pair b returns
\* KeypairAlreadyExists (unless reading a met a read failure) and leaves the
\* files of a and of b as they were.
C4_RenameOntoStored ==
    \A c \in Callers :
        LET p == proc[c] IN
        (/\ Returned(c, "rename")
         /\ p.name \in ValidNames /\ p.new_name \in ValidNames
         /\ Stored(p.fs0, p.name)
         /\ Stored(p.fs0, p.new_name)
         /\ ~p.read_failed)
        => /\ p.res = Err("KeypairAlreadyExists")
           /\ \A f \in NameFiles(p.name) \cup NameFiles(p.new_name) : dir[f] = p.fs0[f]
           /\ Load(dir, p.name) = Load(p.fs0, p.name)
           /\ Load(dir, p.new_name) = Load(p.fs0, p.new_name)

C4_Witness ==
    \E c \in Callers :
        LET p == proc[c] IN
        /\ Returned(c, "rename")
        /\ p.name # p.new_name
        /\ Stored(p.fs0, p.name)
        /\ Stored(p.fs0, p.new_name)
        /\ KeysOf(p.fs0, p.name) # KeysOf(p.fs0, p.new_name)
        /\ p.res.kind = "KeypairAlreadyExists"

\* C5: from the call of rename(a, b) on a stored pair a to its return, with
\* whatever result, the keys a held at the call load as a complete pair under
\* a or under b.
C5_RenameKeepsACopy ==
    \A c \in Callers :
        LET p == proc[c] IN
        (/\ p.op = "rename"
         /\ Stored(p.fs0, p.name))
        => \/ Load(dir, p.name) = Load(p.fs0, p.name)
           \/ /\ Stored(dir, p.new_name)
              /\ KeysOf(dir, p.new_name) = KeysOf(p.fs0, p.name)

C5_Witness ==
    \E c \in Callers :
        LET p == proc[c] IN
        /\ Returned(c, "rename")
        /\ Stored(p.fs0, p.name)
        /\ p.res.kind = "DeleteError"
        /\ ~is_file(dir, public_filename(p.name))
        /\ is_file(dir, secret_filename(p.name))
        /\ Stored(dir, p.new_name)

\* C6: remove(n) of a stored pair n, once it returned Ok: neither file of n
\* exists, n is not found, every other file is as it was.
C6_RemoveDeletesBoth ==
    \A c \in Callers :
        LET p == proc[c] IN
        (/\ Returned(c, "remove")
         /\ Stored(p.fs0, p.name)
         /\ p.res.kind = "Ok")
        => /\ \A f \in NameFiles(p.name) : ~HasEntry(dir, f)
           /\ Load(dir, p.name).kind = "KeypairNotFound"
           /\ \A f \in Files \ NameFiles(p.name) : dir[f] = p.fs0[f]

C6_Witness ==
    \E c \in Callers :
        LET p == proc[c] IN
        /\ Returned(c, "remove")
        /\ p.res.kind = "Ok"
        /\ Stored(p.fs0, p.name)
        /\ \E m \in ValidNames \ {p.name} : Stored(dir, m)

\* the names holding, on directory d, a complete loadable pair with public key k
Holders(d, k) == {n \in ValidNames : Stored(d, n) /\ Load(d, n).public = k}

\* C7 as stated: while a keypair created as (n, p, s) is in force, find(p)
\* returns the keypair named n with keys (p, s), whatever else is stored, and
\* find of a public key held by no file returns PublicKeyNotFound.
C7_FindReturnsCreatedName ==
    \A c \in Callers :
        LET p == proc[c] IN
        (Returned(c, "find") /\ ~p.read_failed)
        => /\ \A n \in ValidNames :
                (created[n] # NoKeys /\ created[n].public = p.public)
                => p.res = Ok([name |-> n, public |-> created[n].public,
                               secret |-> created[n].secret])
           /\ (\A f \in Files : dir[f] # RegularFile(PublicPem(p.public)))
                => p.res = Err("PublicKeyNotFound")

\* C7 amended: while a keypair created as (n, p, s) is in force, find(p)
\* returns Ok with a stored complete pair whose public key is p (name, public
\* and secret key all of one stored name), and that pair is (n, p, s) when no
\* other stored pair has public key p; find of a public key held by no file
\* returns PublicKeyNotFound.
C7_FindReturnsAHolder ==
    \A c \in Callers :
        LET p == proc[c] IN
        (Returned(c, "find") /\ ~p.read_failed)
        => /\ \A n \in ValidNames :
                (created[n] # NoKeys /\ created[n].public = p.public)
                => /\ p.res.kind = "Ok"
                   /\ p.res.keypair.name \in Holders(dir, p.public)
                   /\ p.res.keypair.public = p.public
                   /\ p.res.keypair.secret = Load(dir, p.res.keypair.name).secret
                   /\ Holders(dir, p.public) = {n}
                        => p.res = Ok([name |-> n, public |-> created[n].public,
                                       secret |-> created[n].secret])
           /\ (\A f \in Files : dir[f] # RegularFile(PublicPem(p.public)))
                => p.res = Err("PublicKeyNotFound")

C7_Witness ==
    \E c \in Callers :
        LET p == proc[c] IN
        /\ Returned(c, "find")
        /\ p.public = "P1"
        /\ created[NameA] = [public |-> "P1", secret |-> "S1"]
        /\ created[NameB] = [public |-> "P1", secret |-> "S2"]
        /\ p.res = Ok([name |-> NameB, public |-> "P1", secret |-> "S2"])

\* the names a listing yielded, in the order it yielded them
YieldedNames(p) == [i \in 1..Len(p.yielded) |-> p.yielded[i].name]

\* C8: a listing run to its end on an unchanging directory, with no read
\* failure, returns without error and yields exactly the names whose two
\* files both exist and load, each once and with the keys stored under it;
\* a name with one file only or with an unloadable file is left out.
C8_ListingYieldsCompletePairs ==
    \A c \in Callers :
        LET p == proc[c] IN
        (Returned(c, "iter") /\ ~p.read_failed)
        => /\ p.res = OkUnit
           /\ {YieldedNames(p)[i] : i \in 1..Len(p.yielded)}
                = {n \in CandidateNames(dir) \cup ValidNames : Stored(dir, n)}
           /\ \A i, j \in 1..Len(p.yielded) :
                YieldedNames(p)[i] = YieldedNames(p)[j] => i = j
           /\ \A i \in 1..Len(p.yielded) :
                /\ p.yielded[i].public = Load(dir, p.yielded[i].name).public
                /\ p.yielded[i].secret = Load(dir, p.yielded[i].name).secret

C8_Witness ==
    \E c \in Callers :
        LET p == proc[c] IN
        /\ Returned(c, "iter")
        /\ ~p.read_failed
        /\ Len(p.yielded) = 1
        /\ \E n \in ValidNames :
             /\ ~Stored(dir, n)
             /\ is_file(dir, public_filename(n))
             /\ ~HasEntry(dir, secret_filename(n))

C8_WitnessEmpty ==
    \E c \in Callers :
        /\ Returned(c, "iter")
        /\ \A f \in Files : ~HasEntry(dir, f)
        /\ proc[c].res = OkUnit
        /\ proc[c].yielded = <<>>

\* C9: create, get, remove and rename called with an empty or ill-formed name
\* (for rename: old or new) return InvalidKeypairName without having made any
\* filesystem call.
C9_ValidationBeforeFilesystem ==
    \A c \in Callers :
        LET p == proc[c] IN
        (/\ p.pc = "done"
         /\ p.op \in {"create", "get", "remove", "rename"}
         /\ \/ ~KeypairName_new(p.name).ok
            \/ p.op = "rename" /\ ~KeypairName_new(p.new_name).ok)
        => /\ p.res.kind = "InvalidKeypairName"
           /\ ~p.touched

\* C10: from an empty directory, with one caller, no change from outside and
\* no failed write or removal, between calls every name has both its files
\* or neither.
C10_PairsAreWhole ==
    (/\ wfaults = 0
     /\ envSteps = 0
     /\ \A c \in Callers : proc[c].pc \in {"idle", "done"})
    => \A n \in ValidNames :
         HasEntry(dir, public_filename(n)) <=> HasEntry(dir, secret_filename(n))

C10_Witness ==
    /\ wfaults = 0
    /\ envSteps = 0
    /\ \E c \in Callers :
         /\ Returned(c, "remove")
         /\ proc[c].res.kind = "Ok"
         /\ \A f \in NameFiles(proc[c].name) : ~HasEntry(dir, f)
         /\ \E m \in ValidNames : \A f \in NameFiles(m) : is_file(dir, f)

\* a rename that wrote the new name and then failed to remove the old one
RemovalFailedAfterCreate(p) ==
    /\ p.pc = "done" /\ p.op = "rename"
    /\ p.res.kind = "DeleteError"
    /\ Stored(p.fs0, p.name)

\* C11: when rename(a, b) has created b and the removal of a then fails,
\* rename returns an error, b is not rolled back, and a and b both load and
\* hold equal keys.
C11_BothNamesLoadAfterFailedRemoval ==
    \A c \in Callers :
        LET p == proc[c] IN
        RemovalFailedAfterCreate(p)
        => /\ p.res.kind # "Ok"
           /\ Stored(dir, p.new_name)
           /\ KeysOf(dir, p.new_name) = KeysOf(p.fs0, p.name)
           /\ Stored(dir, p.name)
           /\ KeysOf(dir, p.name) = KeysOf(dir, p.new_name)

\* the error kind a plain remove(a) returns when a removal fails
RemoveFailureKind ==
    DeleteResult([IdleProc EXCEPT !.op = "remove"], FALSE).res.kind

\* C12: the error of a rename that created the new name and failed to remove
\* the old one has a kind other than the one remove returns for the same
\* failed removal.
C12_TwoPhaseFailureIsDistinct ==
    \A c \in Callers :
        RemovalFailedAfterCreate(proc[c]) => proc[c].res.kind # RemoveFailureKind

\* exactly one of the two files of n is a regular file, the other is missing
Orphan(d, n) ==
    \/ is_file(d, public_filename(n)) /\ ~HasEntry(d, secret_filename(n))
    \/ is_file(d, secret_filename(n)) /\ ~HasEntry(d, public_filename(n))

\* C17: a name n with exactly one of its files cannot be repaired by the
\* Keychain: get(n), remove(n) and rename(n, m) return KeypairNotFound,
\* create(n, ..) and rename(m, n) of a stored m return KeypairAlreadyExists,
\* and no call changes either file of n, so n stays unusable.
C17_OrphanStays ==
    \A c \in Callers :
        LET p == proc[c] IN
        /\ \A n \in ValidNames :
             (p.pc # "idle" /\ Orphan(p.fs0, n))
             => /\ \A f \in NameFiles(n) : dir[f] = p.fs0[f]
                /\ Load(dir, n).kind = "KeypairNotFound"
        /\ (p.pc = "done" /\ p.name \in ValidNames /\ Orphan(p.fs0, p.name))
             => /\ p.op \in {"get", "remove", "rename"} => p.res = Err("KeypairNotFound")
                /\ p.op = "create" => p.res = Err("KeypairAlreadyExists")
        /\ (/\ Returned(c, "rename")
            /\ p.new_name \in ValidNames /\ Orphan(p.fs0, p.new_name)
            /\ Stored(p.fs0, p.name) /\ ~p.read_failed)
             => p.res = Err("KeypairAlreadyExists")

C17_Witness ==
    \E c \in Callers :
        LET p == proc[c] IN
        /\ Returned(c, "remove")
        /\ p.name \in ValidNames
        /\ is_file(p.fs0, secret_filename(p.name))
        /\ ~HasEntry(p.fs0, public_filename(p.name))
        /\ p.res.kind = "KeypairNotFound"
        /\ is_file(dir, secret_filename(p.name))


(***************************************************************************)
(* C15: every non-empty string made only of ASCII letters, digits, '-',    *)
(* '_' and '.' is accepted by KeypairName::new, the name is exactly the    *)
(* string given, and the filenames are the string followed by ".pub" and   *)
(* ".sec".                                                                 *)
(***************************************************************************)
NameChars == Lower \cup Upper \cup Digit \cup {"-", "_", "."}

WellFormed(s) == Len(s) > 0 /\ \A i \in 1..Len(s) : s[i] \in NameChars

C15_ValidNamesRoundTrip ==
    \A c \in Callers :
        (Returned(c, "name") /\ WellFormed(proc[c].name)) =>
            /\ proc[c].res.kind = "Ok"
            /\ proc[c].res.keypair.name = proc[c].name
            /\ proc[c].files = << proc[c].name \o <<".", "p", "u", "b">>,
                                  proc[c].name \o <<".", "s", "e", "c">> >>

C15_Witness ==
    \E c \in Callers :
        /\ Returned(c, "name")
        /\ proc[c].res.kind = "Ok"
        /\ Len(proc[c].name) = MaxLen
        /\ \E i \in 1..MaxLen : proc[c].name[i] \in Upper
        /\ \E i \in 1..MaxLen : proc[c].name[i] = "."
        /\ Len(proc[c].files) = 2

(***************************************************************************)
(* C16: KeypairName::new fails on every other string: with Empty on the    *)
(* empty string, otherwise with BadChar of the leftmost character that is  *)
(* not allowed, also when several different such characters occur.         *)
(***************************************************************************)
RECURSIVE LeftmostBad(_)
LeftmostBad(s) ==
    IF s = <<>> THEN ""
    ELSE IF Head(s) \notin NameChars THEN Head(s)
    ELSE LeftmostBad(Tail(s))

C16_InvalidNamesReportFirstBadChar ==
    \A c \in Callers :
        (Returned(c, "name") /\ ~WellFormed(proc[c].name)) =>
            /\ proc[c].res.kind = "InvalidKeypairName"
            /\ proc[c].files = <<>>
            /\ IF proc[c].name = <<>>
               THEN proc[c].res.detail = "Empty"
               ELSE /\ proc[c].res.detail = "BadChar"
                    /\ proc[c].res.ch = LeftmostBad(proc[c].name)

C16_Witness ==
    \E c \in Callers :
        /\ Returned(c, "name")
        /\ proc[c].res.detail = "BadChar"
        /\ \E i, j \in 1..Len(proc[c].name) :
              /\ i < j
              /\ proc[c].name[i] \notin NameChars
              /\ proc[c].name[j] \notin NameChars
              /\ proc[c].name[i] # proc[c].name[j]
              /\ proc[c].res.ch = proc[c].name[i]

(***************************************************************************)
(* C14 as stated: when open_at fails it returns BadKeychainDir carrying    *)
(* the path.                                                               *)
(***************************************************************************)
C14_OpenFailsWithBadKeychainDir ==
    \A c \in Callers :
        (Returned(c, "open_at") /\ proc[c].res.kind # "Ok") =>
            /\ proc[c].res.kind = "BadKeychainDir"
            /\ proc[c].res.path = proc[c].path

(***************************************************************************)
(* C14 as the code has it: open_at succeeds when the directory exists,     *)
(* leaving tree and keypairs as they were, or when no component of the     *)
(* path is a non-directory and creation does not fail, and then every      *)
(* component is a directory; every failure is a KeychainOpenError that     *)
(* carries the path, a kind the iterator constructor never returns.        *)
(***************************************************************************)
Creatable(t, path) == \A q \in Prefixes(path) : t[q] \in {"absent", "dir"}

C14_OpenAt ==
    \A c \in Callers :
        LET p == proc[c] IN
        Returned(c, "open_at") =>
            /\ dir = p.fs0
            /\ p.res.kind \in {"Ok", "KeychainOpenError"}
            /\ p.tree0[p.path] = "dir" => (p.res.kind = "Ok" /\ tree = p.tree0)
            /\ (Creatable(p.tree0, p.path) /\ wfaults = 0) => p.res.kind = "Ok"
            /\ p.res.kind = "Ok" =>
                  /\ Creatable(p.tree0, p.path)
                  /\ \A q \in Nodes :
                        tree[q] = IF q \in Prefixes(p.path) THEN "dir" ELSE p.tree0[q]
            /\ ~Creatable(p.tree0, p.path) => tree = p.tree0
            /\ p.res.kind # "Ok" =>
                  /\ p.res.kind = "KeychainOpenError"
                  /\ p.res.path = p.path

C14_Witness ==
    \E c \in Callers :
        /\ Returned(c, "open_at")
        /\ proc[c].path = Elsewhere
        /\ ~Creatable(proc[c].tree0, Elsewhere)
        /\ proc[c].res.kind = "KeychainOpenError"
        /\ proc[c].res.path = Elsewhere
        /\ \E n \in ValidNames : Stored(dir, n)

C14_WitnessCreated ==
    \E c \in Callers :
        /\ Returned(c, "open_at")
        /\ proc[c].path = Elsewhere
        /\ \A q \in Prefixes(Elsewhere) : proc[c].tree0[q] = "absent"
        /\ proc[c].res.kind = "Ok"
        /\ \A q \in Prefixes(Elsewhere) : tree[q] = "dir"

(***************************************************************************)
(* C13: a handle holds no index between calls, and the result of get,      *)
(* find and listing is the one the directory contents at the call give:    *)
(* after changes made through another handle or from outside, a call       *)
(* returns the keypairs stored now and none that is no longer stored.      *)
(***************************************************************************)
StoredNames(d) == {n \in ValidNames : Stored(d, n)}

C13_HandleHoldsNoIndex ==
    \A c \in Callers :
        LET p == proc[c] IN
        /\ p.pc = "idle" => p = IdleProc
        /\ Returned(c, "get") =>
              /\ dir = p.fs0
              /\ p.res.kind = Load(p.fs0, p.name).kind
              /\ p.res.kind = "Ok" =>
                    /\ p.res.keypair.name = p.name
                    /\ p.res.keypair.public = Load(p.fs0, p.name).public
                    /\ p.res.keypair.secret = Load(p.fs0, p.name).secret
        /\ Returned(c, "find") =>
              /\ dir = p.fs0
              /\ IF Holders(p.fs0, p.public) = {}
                 THEN p.res.kind = "PublicKeyNotFound"
                 ELSE /\ p.res.kind = "Ok"
                      /\ p.res.keypair.name \in Holders(p.fs0, p.public)
                      /\ p.res.keypair.secret = Load(p.fs0, p.res.keypair.name).secret
        /\ Returned(c, "iter") =>
              /\ dir = p.fs0
              /\ {p.yielded[i].name : i \in 1..Len(p.yielded)} = StoredNames(p.fs0)
              /\ Len(p.yielded) = Cardinality(StoredNames(p.fs0))
              /\ \A i \in 1..Len(p.yielded) :
                    /\ p.yielded[i].public = Load(p.fs0, p.yielded[i].name).public
                    /\ p.yielded[i].secret = Load(p.fs0, p.yielded[i].name).secret

\* a get through one handle finds nothing under a name whose files the other
\* handle was the last to change, by removing them
C13_Witness ==
    \E c, c2 \in Callers : \E n \in ValidNames :
        /\ c # c2
        /\ Returned(c, "get")
        /\ proc[c].name = n
        /\ proc[c].res.kind = "KeypairNotFound"
        /\ writer[n] = Handle(c2)
        /\ \A f \in NameFiles(n) : ~HasEntry(dir, f)

\* a listing through one handle yields what the other handle and the outside
\* stored
C13_WitnessListing ==
    \E c, c2 \in Callers : \E n, m \in ValidNames :
        /\ c # c2
        /\ Returned(c, "iter")
        /\ writer[n] = Handle(c2)
        /\ writer[m] = Outside
        /\ Len(proc[c].yielded) = 1
        /\ proc[c].yielded[1].name = n

(***************************************************************************)
(* C19: create checks and then writes, with nothing held in between: a     *)
(* create that has passed both existence checks never returns              *)
(* KeypairAlreadyExists, and each of its writes that does not fail puts    *)
(* the caller's key into the file whatever another caller wrote there in   *)
(* the meantime; so two creates of the same absent name can both return    *)
(* Ok, having written the same two files.                                  *)
(***************************************************************************)
C19_Step(c) ==
    LET p == proc[c]
        q == proc'[c]
        pub == public_filename(p.cur)
        sec == secret_filename(p.cur)
    IN  (p.op = "create" /\ q # p) =>
            /\ p.pc = "save_to_file_public" =>
                  /\ q.res.kind # "KeypairAlreadyExists"
                  /\ (wfaults' = wfaults /\ dir[pub].kind # "dir") =>
                        /\ q.pc = "save_to_file_secret"
                        /\ dir'[pub] = RegularFile(PublicPem(p.public))
            /\ p.pc = "save_to_file_secret" =>
                  /\ q.res.kind # "KeypairAlreadyExists"
                  /\ (wfaults' = wfaults /\ dir[sec].kind # "dir") =>
                        /\ q.res = OkUnit
                        /\ dir'[sec] = RegularFile(SecretPem(p.secret))

C19_CreateWritesAfterCheck == [][\A c \in Callers : C19_Step(c)]_vars

\* both creates of the same name returned Ok, and the pair left behind is
\* the public key of one caller with the secret key of the other
C19_Witness ==
    \E c, c2 \in Callers :
        /\ c # c2
        /\ Returned(c, "create") /\ Returned(c2, "create")
        /\ proc[c].name = proc[c2].name
        /\ ~HasEntry(proc[c].fs0, public_filename(proc[c].name))
        /\ ~HasEntry(proc[c2].fs0, secret_filename(proc[c].name))
        /\ proc[c].res = OkUnit /\ proc[c2].res = OkUnit
        /\ dir[public_filename(proc[c].name)] = RegularFile(PublicPem(proc[c2].public))
        /\ dir[secret_filename(proc[c].name)] = RegularFile(SecretPem(proc[c].secret))

(***************************************************************************)
(* C20: get(n) returns KeypairNotFound exactly when n.pub, or then n.sec,  *)
(* is not a regular file when it is checked; once both checks have passed  *)
(* it returns the keypair or LoadError, LoadError also when the file was   *)
(* removed between the check and the read, and never KeypairNotFound.      *)
(***************************************************************************)
C20_Step(c) ==
    LET p == proc[c]
        q == proc'[c]
        pub == public_filename(p.cur)
        sec == secret_filename(p.cur)
    IN  (p.op = "get" /\ q # p) =>
            /\ p.pc = "load_is_file_public" =>
                  IF is_file(dir, pub)
                  THEN q.pc = "load_is_file_secret"
                  ELSE q.pc = "done" /\ q.res = Err("KeypairNotFound")
            /\ p.pc = "load_is_file_secret" =>
                  IF is_file(dir, sec)
                  THEN q.pc = "load_from_file_public"
                  ELSE q.pc = "done" /\ q.res = Err("KeypairNotFound")
            /\ p.pc = "load_from_file_public" =>
                  /\ q.pc \in {"load_from_file_secret", "done"}
                  /\ q.pc = "done" => q.res = Err("LoadError")
                  /\ ~is_file(dir, pub) => q.res = Err("LoadError")
            /\ p.pc = "load_from_file_secret" =>
                  /\ q.pc = "done"
                  /\ q.res.kind \in {"Ok", "LoadError"}
                  /\ ~is_file(dir, sec) => q.res = Err("LoadError")

C20_GetClassifiesAtTheCheck == [][\A c \in Callers : C20_Step(c)]_vars

\* no read failed by itself and no file was ever damaged, so the LoadError
\* comes from a file that the other caller removed after the check
C20_Witness ==
    \E c, c2 \in Callers :
        /\ c # c2
        /\ Returned(c, "get")
        /\ proc[c].res = Err("LoadError")
        /\ rfaults = 0
        /\ wfaults = 0
        /\ writer[proc[c].name] = Handle(c2)
        /\ ~HasEntry(dir, public_filename(proc[c].name))
        /\ is_file(dir, secret_filename(proc[c].name))

(***************************************************************************)
(* C18 as stated: what a listing yields is what was stored when the        *)
(* iterator was constructed, names and keys, whatever is created, removed  *)
(* or renamed before the iteration ends.                                   *)
(***************************************************************************)
C18_MutationsNotObserved ==
    \A c \in Callers :
        LET p == proc[c] IN
        (Returned(c, "iter") /\ p.res = OkUnit) =>
            /\ {p.yielded[i].name : i \in 1..Len(p.yielded)} = StoredNames(p.fs0)
            /\ \A i \in 1..Len(p.yielded) :
                  /\ p.yielded[i].public = Load(p.fs0, p.yielded[i].name).public
                  /\ p.yielded[i].secret = Load(p.fs0, p.yielded[i].name).secret

(***************************************************************************)
(* C18 as the code has it: the names are fixed at construction, so a name  *)
(* without a file at construction is never yielded and none is yielded     *)
(* twice; each keypair is loaded when the iteration reaches its name, so   *)
(* it carries the keys the files hold when they are read, and a name that  *)
(* no longer loads is skipped.                                             *)
(***************************************************************************)
C18_Step(c) ==
    LET p == proc[c]
        q == proc'[c]
        pub == public_filename(p.cur)
        sec == secret_filename(p.cur)
    IN  (p.op = "iter" /\ q # p /\ p.pc # "done") =>
            /\ p.pc = "iter_read_dir" =>
                  (q.pc = "iter_next" /\ q.name_iter = CandidateNames(dir) /\ q.fs0 = dir)
            /\ p.pc # "iter_read_dir" => (q.name_iter \subseteq p.name_iter /\ q.fs0 = p.fs0)
            /\ (p.pc = "iter_next" /\ q.pc = "load_is_file_public") =>
                  (q.cur \in p.name_iter /\ q.cur \notin q.name_iter)
            /\ (p.pc = "load_from_file_public" /\ q.pc = "load_from_file_secret") =>
                  q.keypair.public = PublicKey_from_file(dir, pub).key
            /\ IF p.pc = "load_from_file_secret" /\ SecretKey_from_file(dir, sec).ok
               THEN q.yielded = Append(p.yielded,
                                       [name |-> p.cur, public |-> p.keypair.public,
                                        secret |-> SecretKey_from_file(dir, sec).key])
               ELSE q.yielded = p.yielded
            /\ \A i \in 1..Len(q.yielded) : q.yielded[i].name \in CandidateNames(q.fs0)
            /\ \A i, j \in 1..Len(q.yielded) :
                  q.yielded[i].name = q.yielded[j].name => i = j

C18_NamesFixedKeysReadLate == [][\A c \in Callers : C18_Step(c)]_vars

\* a listing that ended without the keypair stored when it began, which the
\* other caller renamed meanwhile, and without the new name either
C18_Witness ==
    \E c \in Callers : \E n, m \in ValidNames :
        /\ Returned(c, "iter")
        /\ proc[c].res = OkUnit
        /\ Stored(proc[c].fs0, n)
        /\ m \notin CandidateNames(proc[c].fs0)
        /\ Stored(dir, m)
        /\ ~Stored(dir, n)
        /\ proc[c].yielded = <<>>

\* a listing that yielded keys written after it began
C18_WitnessKeys ==
    \E c \in Callers : \E n \in ValidNames :
        /\ Returned(c, "iter")
        /\ Stored(proc[c].fs0, n)
        /\ Len(proc[c].yielded) = 1
        /\ proc[c].yielded[1].name = n
        /\ proc[c].yielded[1].public # Load(proc[c].fs0, n).public

C21_Step(c) ==
    LET p == proc[c]
        q == proc'[c]
        pub == public_filename(p.cur)
        sec == secret_filename(p.cur)
    IN  (p.op = "create" /\ q # p) =>
            /\ p.pc = "save_to_file_public" =>
                  /\ dir'[sec] = dir[sec]
                  /\ IF q.pc = "save_to_file_secret"
                     THEN dir'[pub] = RegularFile(PublicPem(p.public))
                     ELSE /\ q.pc = "done"
                          /\ q.res = Err("SaveError")
                          /\ dir'[pub] \in {dir[pub], RegularFile(Junk)}
            /\ p.pc = "save_to_file_secret" =>
                  /\ dir[pub] = RegularFile(PublicPem(p.public))
                  /\ dir'[pub] = dir[pub]
                  /\ q.pc = "done"
                  /\ IF q.res = OkUnit
                     THEN dir'[sec] = RegularFile(SecretPem(p.secret))
                     ELSE /\ q.res = Err("SaveError")
                          /\ dir'[sec] \in {dir[sec], RegularFile(Junk)}

C21_WitnessPublic ==
    \E c \in Callers :
        LET p == proc[c] IN
        /\ Returned(c, "create")
        /\ p.res = Err("SaveError")
        /\ dir[public_filename(p.name)] = RegularFile(Junk)
        /\ ~HasEntry(dir, secret_filename(p.name))

(***************************************************************************)
(* C22: Keypair::delete handles the two files one after the other and      *)
(* independently: each file that is a regular file when it is checked is   *)
(* removed, a file that is not there counts as success for its half, the   *)
(* secret file is handled whatever became of the public one, and the       *)
(* result is DeleteError exactly when a removal that was attempted failed. *)
(***************************************************************************)
Removed(f) == is_file(dir, f) /\ dir'[f] = Absent

C22_Step(c) ==
    LET p == proc[c]
        q == proc'[c]
        pub == public_filename(p.cur)
        sec == secret_filename(p.cur)
    IN  (p.op = "remove" /\ q # p) =>
            /\ p.pc = "delete_is_file_public" =>
                  /\ dir' = dir
                  /\ IF is_file(dir, pub)
                     THEN q.pc = "delete_remove_public"
                     ELSE q.pc = "delete_is_file_secret" /\ q.public_result
            /\ p.pc = "delete_remove_public" =>
                  /\ q.pc = "delete_is_file_secret"
                  /\ q.public_result = Removed(pub)
                  /\ ~Removed(pub) => dir' = dir
                  /\ dir'[sec] = dir[sec]
            /\ p.pc = "delete_is_file_secret" =>
                  /\ dir' = dir
                  /\ IF is_file(dir, sec)
                     THEN q.pc = "delete_remove_secret" /\ q.public_result = p.public_result
                     ELSE /\ q.pc = "done"
                          /\ q.res = IF p.public_result THEN OkUnit ELSE Err("DeleteError")
            /\ p.pc = "delete_remove_secret" =>
                  /\ q.pc = "done"
                  /\ q.res = IF p.public_result /\ Removed(sec)
                             THEN OkUnit ELSE Err("DeleteError")
                  /\ ~Removed(sec) => dir' = dir
                  /\ dir'[pub] = dir[pub]

C22_DeleteHandlesEachFile == [][\A c \in Callers : C22_Step(c)]_vars

\* the removal of the public file failed and the secret file was removed
\* all the same
C22_Witness ==
    \E c \in Callers :
        LET p == proc[c] IN
        /\ Returned(c, "remove")
        /\ p.res = Err("DeleteError")
        /\ Stored(p.fs0, p.name)
        /\ writer[p.name] = Handle(c)
        /\ is_file(dir, public_filename(p.name))
        /\ ~HasEntry(dir, secret_filename(p.name))

\* both files were gone when delete checked them: the other caller's remove
\* took them after this caller's get
C22_WitnessAbsent ==
    \E c, c2 \in Callers :
        /\ c # c2
        /\ Returned(c, "remove") /\ Returned(c2, "remove")
        /\ proc[c].res = OkUnit /\ proc[c2].res = OkUnit
        /\ Stored(proc[c].fs0, proc[c].name)
        /\ Stored(proc[c2].fs0, proc[c].name)
        /\ proc[c].fs0 = proc[c2].fs0
        /\ wfaults = 0

(***************************************************************************)
(* C23: find(p) that meets no read failure returns Ok exactly when some    *)
(* name holds a complete pair that loads and whose public key is p; the    *)
(* keypair returned is such a pair, name, public and secret key of one     *)
(* name, also when several names hold p; otherwise it returns              *)
(* PublicKeyNotFound, also when p is in the file of an incomplete pair.    *)
(***************************************************************************)
C23_FindSucceedsIffHeld ==
    \A c \in Callers :
        LET p == proc[c] IN
        (Returned(c, "find") /\ ~p.read_failed) =>
            IF Holders(dir, p.public) = {}
            THEN p.res = Err("PublicKeyNotFound")
            ELSE \E n \in Holders(dir, p.public) :
                    p.res = Ok([name |-> n, public |-> p.public,
                                secret |-> KeysOf(dir, n).secret])

\* the public key looked for is in a .pub file whose .sec file is missing
C23_Witness ==
    \E c \in Callers : \E n \in ValidNames :
        LET p == proc[c] IN
        /\ Returned(c, "find")
        /\ ~p.read_failed
        /\ dir[public_filename(n)] = RegularFile(PublicPem(p.public))
        /\ ~HasEntry(dir, secret_filename(n))
        /\ p.res = Err("PublicKeyNotFound")

\* two names hold the public key looked for, with different secret keys
C23_WitnessShared ==
    \E c \in Callers :
        LET p == proc[c] IN
        /\ Returned(c, "find")
        /\ Holders(dir, p.public) = ValidNames
        /\ KeysOf(dir, NameA).secret # KeysOf(dir, NameB).secret
        /\ p.res.kind = "Ok"

(***************************************************************************)
(* C24: rename(n, n) never returns Ok and never changes the directory;     *)
(* for a stored complete keypair n that loads it returns                   *)
(* KeypairAlreadyExists, and n.pub and n.sec stay as they were.            *)
(***************************************************************************)
C24_RenameToItself ==
    \A c \in Callers :
        LET p == proc[c] IN
        (Returned(c, "rename") /\ p.name = p.new_name) =>
            /\ dir = p.fs0
            /\ p.res.kind # "Ok"
            /\ (Stored(p.fs0, p.name) /\ ~p.read_failed) =>
                  /\ p.res = Err("KeypairAlreadyExists")
                  /\ Stored(dir, p.name)
                  /\ KeysOf(dir, p.name) = KeysOf(p.fs0, p.name)

C24_Witness ==
    \E c \in Callers :
        LET p == proc[c] IN
        /\ Returned(c, "rename")
        /\ p.name = p.new_name
        /\ Stored(p.fs0, p.name)
        /\ p.res = Err("KeypairAlreadyExists")
        /\ \A f \in NameFiles(p.name) : is_file(dir, f)

(***************************************************************************)
(* C26: get, find and listing are read-only: no step of such a call,       *)
(* from its start to its return, successful or not, changes the directory, *)
(* so the directory after the call is the directory before it.             *)
(***************************************************************************)
ReadOnlyOps == {"get", "find", "iter"}

C26_Step(c) ==
    (proc'[c] # proc[c] /\ (proc[c].op \in ReadOnlyOps \/ proc'[c].op \in ReadOnlyOps))
        => dir' = dir

C26_ReadsChangeNothing == [][\A c \in Callers : C26_Step(c)]_vars

\* a get that failed on a damaged secret file
C26_Witness ==
    \E c \in Callers :
        LET p == proc[c] IN
        /\ Returned(c, "get")
        /\ p.res = Err("LoadError")
        /\ ~p.read_failed
        /\ dir[secret_filename(p.name)] = RegularFile(Junk)
        /\ dir = p.fs0

\* a listing that yielded one keypair and skipped an incomplete one
C26_WitnessListing ==
    \E c \in Callers :
        LET p == proc[c] IN
        /\ Returned(c, "iter")
        /\ Len(p.yielded) = 1
        /\ \E n \in ValidNames : is_file(dir, public_filename(n)) /\ ~Stored(dir, n)
        /\ dir = p.fs0

(***************************************************************************)
(* C27: an encrypt or decrypt command that fails while it resolves its     *)
(* keys leaves the file at the output path as it was when the command      *)
(* started: not created, and with --force not truncated.                   *)
(***************************************************************************)
KeyResolutionErrors ==
    {"BothKeyAndPath", "MissingKeyAndPath", "KeyLoadError", "KeychainError"}

C27_KeysBeforeOutput ==
    \A c \in Callers :
        LET p == proc[c] IN
        (/\ p.pc = "done"
         /\ p.op \in {"encrypt", "decrypt"}
         /\ p.res.kind \in KeyResolutionErrors)
        => outfile = p.out0

\* the encrypt command alone
EncryptKeysBeforeOutput ==
    \A c \in Callers :
        LET p == proc[c] IN
        (Returned(c, "encrypt") /\ p.res.kind \in KeyResolutionErrors)
        => outfile = p.out0

\* a decrypt --force that fails on a keychain name which is not stored and
\* has emptied the output file that existed
DecryptTruncatesThenFails ==
    \E c \in Callers :
        LET p == proc[c] IN
        /\ Returned(c, "decrypt")
        /\ p.args.force
        /\ p.args.key # None
        /\ p.res = FromKeychainError("KeypairNotFound")
        /\ p.out0 = "old"
        /\ outfile = "empty"

(***************************************************************************)
(* C25: a listing over k candidate names starts at most k loads, as many   *)
(* as names it has taken off the set fixed at construction; it comes to    *)
(* its end whatever fails to load and whatever is created or removed       *)
(* meanwhile; and a next() after the end returns None again and yields     *)
(* nothing more.                                                           *)
(***************************************************************************)
Listing(c) == proc[c].op = "iter" /\ proc[c].pc \notin {"idle", "iter_read_dir"}

C25_Attempts ==
    \A c \in Callers :
        Listing(c) =>
            /\ proc[c].attempts + Cardinality(proc[c].name_iter)
                  = Cardinality(CandidateNames(proc[c].fs0))
            /\ Len(proc[c].yielded) <= proc[c].attempts

C25_AfterNone(c) ==
    LET p == proc[c]
        q == proc'[c]
    IN  (p.op = "iter" /\ p.nones >= 1 /\ q # p /\ q.pc # "idle") =>
            /\ q.pc = "done"
            /\ q.res = OkUnit
            /\ q.nones = p.nones + 1
            /\ q.yielded = p.yielded
            /\ q.attempts = p.attempts

C25_IterationEnds ==
    /\ []C25_Attempts
    /\ [][\A c \in Callers : C25_AfterNone(c)]_vars
    /\ \A c \in Solo :
          (proc[c].op = "iter" /\ proc[c].pc # "done")
              ~> (Returned(c, "iter") /\ proc[c].nones >= 1)

\* both candidates failed to load because the other caller removed them, and
\* next() was called again after the end
C25_Witness ==
    \E c, c2 \in Callers :
        LET p == proc[c] IN
        /\ c # c2
        /\ Returned(c, "iter")
        /\ CandidateNames(p.fs0) = ValidNames
        /\ p.attempts = Cardinality(ValidNames)
        /\ p.yielded = <<>>
        /\ p.nones = MaxNones
        /\ \A n \in ValidNames : writer[n] = Handle(c2)


====
